---- MODULE Spec2Model ----
(***************************************************************************)
(* The GAN training engine of src/models/gan.py as driven by src/main.py:  *)
(* graph construction (Model.__init__), the variable-lifecycle protocol    *)
(* (initialize / reinitialize / checkpoints) and the training loop.        *)
(*                                                                         *)
(* The TensorFlow runtime is modelled by what the code uses of it:         *)
(*   - the default graph is the set of variables created so far (DOMAIN    *)
(*     val) plus the operations each construction got to add (GraphOps);   *)
(*   - the session holds one value per variable, <<>> while the variable   *)
(*     is uninitialized and <<x>> once it holds x;                         *)
(*   - a variable is known by its name, "<model name>/<scope>/..."; one   *)
(*     name stands for the trainable variables of one block of a network,  *)
(*     for a step counter, or for the Adam state of one optimizer (the     *)
(*     moving statistics of batch normalization are not told apart);       *)
(*   - a collection filter by scope keeps the variables whose model name   *)
(*     and scope match (model names that are prefixes of one another are   *)
(*     not explored);                                                      *)
(*   - a weight's value is what its random initializer drew plus the       *)
(*     number of optimizer updates applied to it since.                    *)
(*                                                                         *)
(* SpecLegacy is the earlier variant of the same model, src/gan.py.        *)
(* SpecLong is the training loop from inside a long train() call,          *)
(* SpecMain the session block of main.py, SpecLoss the loss construction   *)
(* of Model.__init__ as a function of the discriminator's outputs.         *)
(***************************************************************************)
EXTENDS Integers, Sequences, FiniteSets, TLC

VARIABLES
    val,         \* session: variable name -> <<>> (uninitialized) or <<value>>
    models,      \* the Model(...) constructions of this process, in order
    ckpt,        \* checkpoint store: directory name -> <<>> or <<latest>>
    run,         \* the train() call in progress, if any
    err,         \* the uncaught exception that ended the process, if any
    last,        \* the last call main.py made
    budget,      \* train() calls and restarts left (bounds the exploration)
    loss         \* the loss tensors of one evaluation (SpecLoss), if any

vars == <<val, models, ckpt, run, err, last, budget, loss>>

----------------------------------------------------------------------------
\* Bounds of the exploration.

\* Samples a data source may hold.
MaxSamples == 2
\* Largest configured batch size.
MaxBatch == 2
\* train() calls over the whole exploration.
MaxTrains == 1
\* Process restarts.
MaxRestarts == 1

----------------------------------------------------------------------------
\* Program constants.

\* Model.LossFunction / Model.GradientPenalty enumerations.
NS_GAN == 0
WGAN == 1
ZERO_CENTERED == 0
ONE_CENTERED == 1
\* i % 100 == 0: metric snapshot; i % 100000 == 0: checkpoint.
LogPeriod == 100
SavePeriod == 100000
\* The models of the list main.py builds.
ModelCount == 2
\* min_resolution used by every network of main.py.
MinResolution == 4

\* Model names (checkpoint directories) and reuse policies explored.  The
\* names are interchangeable, so the first model of a process is named "a".
Names == {"a", "b"}
FirstNames == {"a"}
ReusePolicies == {"None", "AUTO_REUSE"}
\* (loss_function, gradient_penalty) selector pairs handed to the
\* constructor, 2 being an unrecognized value of either selector.
SelectorPairs == {<<0, 1>>, <<1, 0>>, <<2, 1>>, <<0, 2>>, <<2, 2>>}
\* Network constructor arguments explored.
MaxResolutions == {4, 8}
MinFilterChoices == {16, 32}
MaxFilterChoices == {32}

Uninit == <<>>
Value(x) == <<x>>
IsInitialized(s) == s # Uninit

NoError == [kind |-> "none", msg |-> "", op |-> "none", m |-> 0]

\* No loss evaluation under study: the losses the training loop evaluates
\* are not told apart.
NotEvaluated == [pc |-> "none"]
Error(kind, msg, op, m) == [kind |-> kind, msg |-> msg, op |-> op, m |-> m]

----------------------------------------------------------------------------
\* Variable names.  A variable is known by its name in the graph,
\* <model name>/<scope>/...; src/gan.py opens no scope of the model's name.

LegacyName == ""
Prefix(ns) == IF ns = LegacyName THEN "" ELSE ns \o "/"

\* The block a network builds at a layer index.
BlockAt(net, index, num_layers) ==
    IF index = 0 THEN "dense_block"
    ELSE IF index = num_layers - 1 THEN "color_block"
    ELSE IF net = "generator" THEN "deconv2d_block"
    ELSE "conv2d_block"

\* log2 of a power of two (integer part otherwise).
RECURSIVE Log2(_)
Log2(n) == IF n <= 1 THEN 0 ELSE 1 + Log2(n \div 2)

\* Generator.__init__ / Discriminator.__init__: the ratio check
\* (raise ValueError("Invalid number of filters") when it fails).
NetworkArgsValid(max_resolution, min_filters, max_filters) ==
    (max_resolution \div MinResolution) = (max_filters \div min_filters)

NumLayers(max_resolution) == Log2(max_resolution \div MinResolution) + 2

\* The trainable variables of one block of a network.
BlockVar(ns, net, index, block) ==
    [name |-> Prefix(ns) \o net \o "/layer_" \o ToString(index) \o "/" \o block,
     ns |-> ns, scope |-> net, trainable |-> TRUE]

\* generator_global_step / discriminator_global_step.
StepVarOf(ns, net) ==
    [name |-> Prefix(ns) \o net \o "_global_step",
     ns |-> ns, scope |-> "", trainable |-> FALSE]

\* The Adam state of an optimizer of the k-th construction.
AdamVar(ns, net, k) ==
    [name |-> Prefix(ns) \o net \o "/Adam_" \o ToString(k),
     ns |-> ns, scope |-> "Adam", trainable |-> FALSE]

Networks == {"generator", "discriminator"}
Depths == {NumLayers(r) : r \in MaxResolutions}
Namespaces == Names \cup {LegacyName}

\* Every variable a construction can add, and what is known of a variable
\* from its name.
AllVariables ==
    UNION {{BlockVar(ns, net, i, BlockAt(net, i, n)) : i \in 0 .. n - 1}
               \cup {StepVarOf(ns, net)}
               \cup {AdamVar(ns, net, k) : k \in 1 .. ModelCount} :
           ns \in Namespaces, net \in Networks, n \in Depths}
Attr == [x \in {r.name : r \in AllVariables} |->
            CHOOSE r \in AllVariables : r.name = x]

\* The names by network, depth and layer, by counter and by optimizer.
LayerVariable ==
    [ns \in Namespaces, net \in Networks, n \in Depths |->
        [i \in 0 .. n - 1 |-> BlockVar(ns, net, i, BlockAt(net, i, n)).name]]
StepVariable ==
    [ns \in Namespaces, net \in Networks |-> StepVarOf(ns, net).name]
AdamVariable ==
    [ns \in Namespaces, net \in Networks, k \in 1 .. ModelCount |->
        AdamVar(ns, net, k).name]

GlobalVariables == DOMAIN val

\* tf.global_variables(scope=name)
GlobalVariablesIn(name) == {v \in GlobalVariables : Attr[v].ns = name}

\* The trainable variables a network call creates or fetches.
NetworkVariables(name, net, num_layers) ==
    {LayerVariable[name, net, num_layers][i] : i \in 0 .. num_layers - 1}

GeneratorStepVar(name) == StepVariable[name, "generator"]
DiscriminatorStepVar(name) == StepVariable[name, "discriminator"]

\* Adam state of the optimizer pair of the k-th construction.
SlotVar(name, net, k) == AdamVariable[name, net, k]

----------------------------------------------------------------------------
\* Model.__init__ (src/models/gan.py), preceded by the construction of its
\* two networks as in the list of src/main.py.

LossFunctionValid(loss_function) == loss_function \in {NS_GAN, WGAN}

\* Mutant: the else branch of line 144 missing.
GradientPenaltyUnchecked(gradient_penalty) == TRUE

GradientPenaltyValid(gradient_penalty) ==
    gradient_penalty \in {ZERO_CENTERED, ONE_CENTERED}

\* tf.get_variable under variable_scope(name, reuse): with reuse=None an
\* existing variable raises ValueError, with AUTO_REUSE it is fetched.
\* A network creates its variables in the order of its layer loop; the
\* variables created before the first conflict stay in the graph.
GeneratorOrder(num_layers) == [i \in 1 .. num_layers |-> i - 1]
DiscriminatorOrder(num_layers) == [i \in 1 .. num_layers |-> num_layers - i]

\* Position in order of the first variable that already exists, or
\* Len(order) + 1 when there is none.
FirstConflict(name, net, num_layers, order, existing) ==
    LET hits == {p \in 1 .. Len(order) :
                    LayerVariable[name, net, num_layers][order[p]]
                        \in existing}
    IN IF hits = {} THEN Len(order) + 1
       ELSE CHOOSE p \in hits : \A q \in hits : p <= q

\* [raised, created]: the outcome of one first (non reuse=True) network call.
NetworkCall(name, reuse, net, num_layers, order, existing) ==
    LET all == NetworkVariables(name, net, num_layers)
        c == FirstConflict(name, net, num_layers, order, existing)
    IN IF reuse = "AUTO_REUSE" \/ c > Len(order)
       THEN [raised |-> FALSE, created |-> all \ existing]
       ELSE [raised |-> TRUE,
             created |-> {LayerVariable[name, net, num_layers][order[p]] :
                            p \in 1 .. c - 1}]

Op(k, name) == [owner |-> k, name |-> name]

\* Lines 34-57: the four placeholders, named by their name= arguments, and
\* the two batch sources (dataset.get_next() and tf.random_normal, which
\* take the names the runtime gives them).
PlaceholderOps(k) ==
    {Op(k, n) : n \in {"batch_size", "training", "IteratorGetNext",
                       "random_normal", "reals", "latents"}}
\* Lines 59-75.
NetworkOps(k) == {Op(k, n) : n \in {"fakes", "real_logits", "fake_logits"}}
\* Lines 82-134.
LossOps(k) ==
    {Op(k, n) : n \in {"generator_loss", "discriminator_loss", "lerped_logits",
                       "gradients"}}
\* Lines 136-212.
TrainOps(k) ==
    {Op(k, n) : n \in {"gradient_penalty", "generator_train_op",
                       "discriminator_train_op", "saver", "summary"}}

\* The operations construction k added to the default graph, by the line it
\* got to: "start" (a network constructor raised, line 26 not reached),
\* "placeholders" (the generator call raised), "generator" (the first
\* discriminator call raised), "networks" (line 112 raised), "losses" (line
\* 145 raised), "complete".
StageOps(k, stage) ==
    CASE stage = "start" -> {}
      [] stage = "placeholders" -> PlaceholderOps(k)
      [] stage = "generator" -> PlaceholderOps(k) \cup {Op(k, "fakes")}
      [] stage = "networks" -> PlaceholderOps(k) \cup NetworkOps(k)
      [] stage = "losses" -> PlaceholderOps(k) \cup NetworkOps(k) \cup LossOps(k)
      [] stage = "complete" ->
            PlaceholderOps(k) \cup NetworkOps(k) \cup LossOps(k) \cup TrainOps(k)

GraphOps == UNION {StageOps(k, models[k].stage) : k \in 1 .. Len(models)}

\* What a Model object keeps of its construction.  Its variable lists are
\* functions of its name, its depth and its place k in the construction
\* order, given below.
ModelObject(name, constructed, num_layers, stage) ==
    [name |-> name, constructed |-> constructed, num_layers |-> num_layers,
     stage |-> stage]

\* self.fakes / self.real_logits: the variables of the model's own networks.
generator_network(m) ==
    NetworkVariables(models[m].name, "generator", models[m].num_layers)
discriminator_network(m) ==
    NetworkVariables(models[m].name, "discriminator", models[m].num_layers)

\* The Adam state minimize() creates for the model's two optimizers.
slots(m) ==
    {SlotVar(models[m].name, "generator", m),
     SlotVar(models[m].name, "discriminator", m)}

\* Every variable construction m created or fetched.
ModelVariables(m) ==
    generator_network(m) \cup discriminator_network(m) \cup slots(m)
        \cup {GeneratorStepVar(models[m].name), DiscriminatorStepVar(models[m].name)}

\* The variables in the graph when construction m returned: those of the
\* constructions up to it (a construction that raises ends the process).
GraphAt(m) == UNION {ModelVariables(j) : j \in 1 .. m}

\* Mutant: scope="generator" / "discriminator" without the model's name.
CollectTrainableAnyName(name, net, pool) ==
    {v \in pool : Attr[v].trainable /\ Attr[v].scope = net}

\* tf.get_collection(TRAINABLE_VARIABLES, scope) over the graph as it is
\* when the constructor runs.
CollectTrainable(name, net, pool) ==
    {v \in pool : Attr[v].trainable /\ Attr[v].ns = name /\ Attr[v].scope = net}

\* Lines 149-156.
generator_variables(m) == CollectTrainable(models[m].name, "generator", GraphAt(m))
discriminator_variables(m) ==
    CollectTrainable(models[m].name, "discriminator", GraphAt(m))

\* Line 204: tf.train.Saver() covers every variable of the graph at that time.
saver_variables(m) == GraphAt(m)

\* The whole construction as a function of its arguments, of the position k
\* of the construction in the process and of the variables already in the
\* graph: the exception raised (if any), the variables added, and the Model
\* object with the line the construction got to.
ConstructOutcome(name, reuse, loss_function, gradient_penalty, max_resolution, g_min_filters, d_min_filters, max_filters, k, existing) ==
    LET num_layers == NumLayers(max_resolution)
        gen == NetworkCall(name, reuse, "generator", num_layers,
                           GeneratorOrder(num_layers), existing)
        dis == NetworkCall(name, reuse, "discriminator", num_layers,
                           DiscriminatorOrder(num_layers), existing \cup gen.created)
        steps == {GeneratorStepVar(name), DiscriminatorStepVar(name)}
        adam == {SlotVar(name, "generator", k), SlotVar(name, "discriminator", k)}
        networks == gen.created \cup dis.created
        Failure(op, msg, stage, created) ==
            [error |-> Error("ValueError", msg, op, k), created |-> created,
             model |-> ModelObject(name, FALSE, num_layers, stage)]
    IN
    IF ~NetworkArgsValid(max_resolution, g_min_filters, max_filters)
    THEN Failure("Generator.__init__", "Invalid number of filters", "start", {})
    ELSE IF ~NetworkArgsValid(max_resolution, d_min_filters, max_filters)
    THEN Failure("Discriminator.__init__", "Invalid number of filters", "start", {})
    ELSE IF gen.raised
    THEN Failure("Model.__init__", "Variable already exists", "placeholders",
                 gen.created)
    ELSE IF dis.raised
    THEN Failure("Model.__init__", "Variable already exists", "generator", networks)
    ELSE IF ~LossFunctionValid(loss_function)
    THEN Failure("Model.__init__", "Invalid loss function", "networks", networks)
    ELSE IF ~GradientPenaltyValid(gradient_penalty)
    THEN Failure("Model.__init__", "Invalid gradient penalty", "losses", networks)
    ELSE [error |-> NoError,
          created |-> (networks \cup steps \cup adam) \ existing,
          model |-> ModelObject(name, TRUE, num_layers, "complete")]

\* No train() call in progress or just returned.
NoRun ==
    [pc |-> "idle", m |-> 0, dir |-> "", i |-> 0, num_samples |-> 0,
     remaining |-> 0, batch_size |-> 0, fetched |-> 0,
     status |-> "UNINITIALIZED", g0 |-> Uninit, d0 |-> Uninit,
     feed_dict |-> <<>>, trace |-> <<>>]

\* train() has returned or raised: its locals are gone; the iteration it
\* stopped at, how it ended and what the runtime executed in that iteration
\* are kept.
Returned(status) ==
    [NoRun EXCEPT !.m = run.m, !.dir = run.dir, !.i = run.i, !.status = status,
                  !.trace = run.trace]

\* main.py catches nothing: an exception ends the process.
Alive == err = NoError
Idle == run.pc = "idle" /\ Alive

\* The call main.py made last, on which model, and whether it is the second
\* reinitialize() in a row.
Call(op, m) == [op |-> op, m |-> m, streak |-> 1]
Record(op, m) ==
    IF op = "reinitialize" /\ last.op = op /\ last.m = m
    THEN [last EXCEPT !.streak = 2]
    ELSE Call(op, m)

\* main.py builds its list of models before it opens the session: every
\* construction of a process precedes its first session call.
GraphOpen == last.op \in {"start", "construct"}

Construct(name, reuse, loss_function, gradient_penalty, max_resolution, g_min_filters, d_min_filters, max_filters) ==
    /\ Idle
    /\ GraphOpen
    /\ Len(models) < ModelCount
    /\ Len(models) = 0 => name \in FirstNames
    /\ LET k == Len(models) + 1
           out == ConstructOutcome(name, reuse, loss_function, gradient_penalty,
                                   max_resolution, g_min_filters, d_min_filters,
                                   max_filters, k, GlobalVariables)
       IN /\ val' = [v \in GlobalVariables \cup out.created |->
                        IF v \in GlobalVariables THEN val[v] ELSE Uninit]
          /\ models' = Append(models, out.model)
          /\ err' = out.error
          /\ last' = Record("construct", k)
    /\ run' = NoRun
    /\ UNCHANGED <<ckpt, budget, loss>>

Init ==
    /\ val = <<>>
    /\ models = <<>>
    /\ ckpt = [n \in Names |-> <<>>]
    /\ run = NoRun
    /\ err = NoError
    /\ last = Call("start", 0)
    /\ budget = [trains |-> MaxTrains, restarts |-> MaxRestarts]
    /\ loss = NotEvaluated

----------------------------------------------------------------------------
\* The variable lifecycle: initialize(), reinitialize(), checkpoints.

Constructed(m) == m \in 1 .. Len(models) /\ models[m].constructed

\* What a declared initializer stores: tf.zeros_initializer for the
\* counters and the Adam state, a random draw for the weights (one draw per
\* initializer run, every run of an initializer drawing anew).
Draws == {0, 1}
InitialValue(v, draw) == IF Attr[v].trainable THEN Value(draw) ELSE Value(0)

\* tf.train.latest_checkpoint(self.name)
LatestCheckpoint(name) == ckpt[name]

\* self.saver.restore(session, checkpoint): every variable of the saver is
\* read from the checkpoint; a variable the checkpoint lacks fails the
\* restore as a whole.
RestoreFails(m, checkpoint) ==
    \E v \in saver_variables(m) : v \notin DOMAIN checkpoint.vals

\* Mutant: a saver over the trainable variables only.
RestoredTrainable(m, checkpoint) ==
    LET saved == saver_variables(m)
    IN [v \in GlobalVariables |->
          IF v \in saved /\ Attr[v].trainable THEN checkpoint.vals[v] ELSE val[v]]

Restored(m, checkpoint) ==
    LET saved == saver_variables(m)
    IN [v \in GlobalVariables |->
          IF v \in saved THEN checkpoint.vals[v] ELSE val[v]]

\* Mutant: tf.trainable_variables(scope) in place of tf.global_variables(scope).
InitializedTrainable(name, draw) ==
    LET global_variables == GlobalVariablesIn(name)
    IN [v \in GlobalVariables |->
          IF v \in global_variables /\ Attr[v].trainable
          THEN InitialValue(v, draw) ELSE val[v]]

\* session.run(tf.variables_initializer(tf.global_variables(scope=self.name)))
InitializedAll(name, draw) ==
    LET global_variables == GlobalVariablesIn(name)
    IN [v \in GlobalVariables |->
          IF v \in global_variables THEN InitialValue(v, draw) ELSE val[v]]

Initialize(m) ==
    /\ Idle
    /\ Constructed(m)
    /\ LET name == models[m].name
           checkpoint == LatestCheckpoint(name)
       IN IF checkpoint # <<>>
          THEN IF RestoreFails(m, checkpoint[1])
               THEN /\ err' = Error("NotFoundError", "Key not found in checkpoint",
                                 "initialize", m)
                    /\ val' = val
               ELSE /\ err' = NoError
                    /\ val' = Restored(m, checkpoint[1])
          ELSE /\ err' = NoError
               /\ \E draw \in Draws : val' = InitializedAll(name, draw)
    /\ last' = Record("initialize", m)
    /\ run' = NoRun
    /\ UNCHANGED <<models, ckpt, budget, loss>>

\* The list comprehension of reinitialize(): the variables of the scope for
\* which tf.is_variable_initialized is false.
UninitializedVariables(name) ==
    {v \in GlobalVariablesIn(name) : ~IsInitialized(val[v])}

\* Mutant: the is_variable_initialized filter dropped.
ReinitializedUnfiltered(name, draw) ==
    LET global_variables == GlobalVariablesIn(name)
    IN [v \in GlobalVariables |->
          IF v \in global_variables THEN InitialValue(v, draw) ELSE val[v]]

Reinitialized(name, draw) ==
    LET uninitialized_variables == UninitializedVariables(name)
    IN [v \in GlobalVariables |->
          IF v \in uninitialized_variables THEN InitialValue(v, draw) ELSE val[v]]

Reinitialize(m) ==
    /\ Idle
    /\ Constructed(m)
    /\ \E draw \in Draws : val' = Reinitialized(models[m].name, draw)
    /\ err' = NoError
    /\ last' = Record("reinitialize", m)
    /\ run' = NoRun
    /\ UNCHANGED <<models, ckpt, budget, loss>>

----------------------------------------------------------------------------
\* train(): one action per step of the loop body.

BatchSizes == 1 .. MaxBatch
SampleCounts == 0 .. MaxSamples

GeneratorStep(name) == val[GeneratorStepVar(name)]
DiscriminatorStep(name) == val[DiscriminatorStepVar(name)]

\* Lines 247-289: everything before the loop.
TrainBegin(m, num_samples, batch_size) ==
    /\ Idle
    /\ Constructed(m)
    /\ budget.trains > 0
    /\ budget' = [budget EXCEPT !.trains = @ - 1]
    /\ run' = [pc |-> "fetch", m |-> m, dir |-> models[m].name, i |-> 0,
               num_samples |-> num_samples, remaining |-> num_samples,
               batch_size |-> batch_size, fetched |-> 0, status |-> "RUNNING",
               g0 |-> GeneratorStep(models[m].name),
               d0 |-> DiscriminatorStep(models[m].name),
               feed_dict |-> <<>>, trace |-> <<>>]
    /\ err' = NoError
    /\ last' = Record("train", m)
    /\ UNCHANGED <<val, models, ckpt, loss>>

\* Number of samples the data source yields next (0: OutOfRangeError).
NextBatch(remaining, batch_size) ==
    IF remaining < batch_size THEN remaining ELSE batch_size

\* Mutant: the test of lines 304-305 missing.
LoopBreaksWhenOutOfRange(fetched, batch_size) == fetched = 0

\* Lines 293-305: whether the loop breaks on this fetch.
LoopBreaks(fetched, batch_size) == fetched = 0 \/ fetched # batch_size

\* The variables session.run([generator_train_op, discriminator_train_op])
\* reads: both networks, both counters and the Adam state of this model,
\* and, through the UPDATE_OPS collected at line 190 (those of every
\* generator built so far), the generators of the earlier models.
UpdateReads(m) ==
    generator_network(m) \cup discriminator_network(m)
        \cup slots(m)
        \cup {GeneratorStepVar(models[m].name), DiscriminatorStepVar(models[m].name)}
        \cup UNION {generator_network(j) : j \in 1 .. m}

\* Mutant: minimize() called without global_step=generator_global_step.
GeneratorUpdatesNoStep(m) ==
    (generator_variables(m) \cap generator_network(m))
        \cup {SlotVar(models[m].name, "generator", m)}

\* The variables one optimizer's minimize() moves: those of its var_list
\* the loss depends on, its Adam state and its global_step.
GeneratorUpdates(m) ==
    (generator_variables(m) \cap generator_network(m))
        \cup {SlotVar(models[m].name, "generator", m)}
        \cup {GeneratorStepVar(models[m].name)}

DiscriminatorUpdates(m) ==
    (discriminator_variables(m) \cap discriminator_network(m))
        \cup {SlotVar(models[m].name, "discriminator", m)}
        \cup {DiscriminatorStepVar(models[m].name)}

Stepped(updated) ==
    [v \in GlobalVariables |->
        IF v \in updated THEN Value(val[v][1] + 1) ELSE val[v]]

\* ops.batch_normalization: the blocks that normalize with running
\* statistics (the discriminator's blocks normalize their weights instead).
BatchNormalized(net, block) ==
    net = "generator" /\ block \in {"deconv2d_block", "color_block"}

\* The update operations the generator call of construction k registers in
\* tf.GraphKeys.UPDATE_OPS: one per normalized block, known by the block.
UpdateOpsOf(k) ==
    LET n == models[k].num_layers
    IN {Op(k, LayerVariable[models[k].name, "generator", n][i]) :
          i \in {j \in 0 .. n - 1 :
                   BatchNormalized("generator", BlockAt("generator", j, n))}}

\* Mutant: the train ops built outside tf.control_dependencies.
UpdateOpsDropped(m) == {}

\* Line 190: tf.get_collection(tf.GraphKeys.UPDATE_OPS) when construction m
\* runs, the control inputs of its two train ops: the update operations of
\* every generator built so far.
update_ops(m) == UNION {UpdateOpsOf(j) : j \in 1 .. m}

\* What a session.run executed: the name of a group of operations and, for
\* the update operations, which ones.
Ran(name, ops) == [name |-> name, ops |-> ops]

\* The networks whose variables a group of operations reads, and writes.
\* The gradient of the generator loss goes back through the discriminator;
\* that of the discriminator loss stops at the discriminator's inputs.
Reads(name) ==
    CASE name \in {"forward", "generator_gradients"} -> Networks
      [] name = "discriminator_gradients" -> {"discriminator"}
      [] OTHER -> {}
Writes(name) ==
    CASE name = "generator_apply" -> {"generator"}
      [] name = "discriminator_apply" -> {"discriminator"}
      [] OTHER -> {}

\* minimize(): the gradients of the loss, then the application to var_list.
Minimize(net) == <<Ran(net \o "_gradients", {}), Ran(net \o "_apply", {})>>

\* The loss evaluations, then the control inputs (when there are any).
RunPrefix(m) ==
    IF update_ops(m) = {} THEN <<Ran("forward", {})>>
    ELSE <<Ran("forward", {}), Ran("update_ops", update_ops(m))>>

\* The orders in which two sequences of operations with no dependency
\* between them can execute.
RECURSIVE Interleavings(_, _)
Interleavings(s, t) ==
    IF s = <<>> THEN {t}
    ELSE IF t = <<>> THEN {s}
    ELSE {<<Head(s)>> \o r : r \in Interleavings(Tail(s), t)}
           \cup {<<Head(t)>> \o r : r \in Interleavings(s, Tail(t))}

\* session.run([generator_train_op, discriminator_train_op]): one run of
\* both train ops.  Each optimizer applies after its own gradients; nothing
\* orders one optimizer's operations against the other's, and the
\* variables are updated in place, so the runtime executes them in any
\* order the dependencies allow.
TrainSchedules(m) ==
    {RunPrefix(m) \o tail :
        tail \in Interleavings(Minimize("generator"), Minimize("discriminator"))}

\* tf.variable_scope(name) opens the name scope <name> the first time and
\* <name>_1 the second: the operations of construction k are named under it.
NameScope(k) ==
    IF \E j \in 1 .. k - 1 : models[j].name = models[k].name
    THEN models[k].name \o "_1"
    ELSE models[k].name
OperationName(o) == NameScope(o.owner) \o "/" \o o.name

\* pattern in operation.name
Contains(name, pattern) ==
    \E i \in 1 .. Len(name) - Len(pattern) + 1 :
        SubSeq(name, i, i + Len(pattern) - 1) = pattern

\* Mutant: lines 312-320 missing, only the model's own placeholders fed.
NoMatchingTensors(pattern) == {}

\* Lines 269-289: the tensors of the default graph whose operation name
\* holds the pattern.
MatchingTensors(pattern) ==
    {o \in GraphOps : Contains(OperationName(o), pattern)}

\* Lines 261-264 and 307-320: feed_dict as it is handed to the update run
\* of an iteration; later updates of the dict overwrite earlier ones.
FeedDict(m, i, batch_size) ==
    LET latents == [batch |-> "latents", i |-> i, rows |-> batch_size]
        reals == [batch |-> "reals", i |-> i, rows |-> batch_size]
        own == {Op(m, "batch_size"), Op(m, "training"), Op(m, "reals"),
                Op(m, "latents")}
        latents_placeholders == MatchingTensors("latents")
        training_placeholders == MatchingTensors("training")
    IN [o \in own \cup latents_placeholders \cup training_placeholders |->
          IF o \in training_placeholders THEN <<TRUE>>
          ELSE IF o \in latents_placeholders THEN <<latents>>
          ELSE IF o = Op(m, "batch_size") THEN <<batch_size>>
          ELSE IF o = Op(m, "training") THEN <<TRUE>>
          ELSE IF o = Op(m, "reals") THEN <<reals>>
          ELSE <<latents>>]

\* The placeholders the two train ops of model m depend on: the model's
\* own and, through an update operation of an earlier generator, the
\* latents and training placeholders that generator was built on.
RequiredPlaceholders(m) ==
    {Op(m, "batch_size"), Op(m, "training"), Op(m, "reals"), Op(m, "latents")}
        \cup UNION {{Op(o.owner, "latents"), Op(o.owner, "training")} :
                      o \in update_ops(m)}

Unfed(m, feed_dict) == RequiredPlaceholders(m) \ DOMAIN feed_dict

\* Lines 291-320: the fetch, the two tests that leave the loop, and the
\* feed of the update run.
Fetch ==
    /\ run.pc = "fetch"
    /\ LET fetched == NextBatch(run.remaining, run.batch_size)
       IN run' = IF LoopBreaks(fetched, run.batch_size)
                 THEN Returned("EXHAUSTED")
                 ELSE [run EXCEPT !.pc = "update", !.remaining = @ - fetched,
                                  !.fetched = fetched,
                                  !.feed_dict = FeedDict(run.m, run.i, run.batch_size)]
    /\ UNCHANGED <<val, models, ckpt, err, last, budget, loss>>

\* Lines 322-325.
Update ==
    /\ run.pc = "update"
    /\ IF \E v \in UpdateReads(run.m) : ~IsInitialized(val[v])
       THEN /\ err' = Error("FailedPreconditionError",
                             "Attempting to use uninitialized value", "train", run.m)
            /\ run' = Returned("FAILED")
            /\ val' = val
       ELSE IF Unfed(run.m, run.feed_dict) # {}
       THEN /\ err' = Error("InvalidArgumentError",
                             "You must feed a value for placeholder tensor",
                             "train", run.m)
            /\ run' = Returned("FAILED")
            /\ val' = val
       ELSE /\ val' = Stepped(GeneratorUpdates(run.m) \cup DiscriminatorUpdates(run.m))
            /\ \E schedule \in TrainSchedules(run.m) :
                  run' = [run EXCEPT !.pc = "report", !.feed_dict = <<>>,
                                     !.trace = schedule]
            /\ err' = err
    /\ UNCHANGED <<models, ckpt, last, budget, loss>>

\* Lines 327 and 350: the iterations that report, and those that save.
Reports(i) == i % LogPeriod = 0

\* Mutant: the test of line 350 missing, a checkpoint at every report.
SavesEveryReport(i) == Reports(i)

Saves(i) == Reports(i) /\ i % SavePeriod = 0

\* Mutant: saver.save(..., global_step=i).
CheckpointTaggedByIndex(m) ==
    [tag |-> run.i, vals |-> [v \in saver_variables(m) |-> val[v]]]

\* self.saver.save(..., global_step=generator_global_step)
Checkpoint(m) ==
    [tag |-> GeneratorStep(models[m].name)[1],
     vals |-> [v \in saver_variables(m) |-> val[v]]]

SaveFails(m) == \E v \in saver_variables(m) : ~IsInitialized(val[v])

\* The loop goes to its next iteration.
NextIteration == [run EXCEPT !.pc = "fetch", !.i = @ + 1, !.trace = <<>>]

\* Mutant: saver.save() in a try block whose handler goes on with the loop.
SaveRaisedCaught(error) == [run |-> NextIteration, err |-> NoError]

\* self.saver.save() raised: neither train() nor main.py catches anything,
\* so the one attempt ends train() and the process.
SaveRaised(error) ==
    [run |-> [Returned("FAILED") EXCEPT !.trace = Append(@, Ran("save", {}))],
     err |-> error]

\* Lines 327-360, then the next value of i.  The checkpoint store may fail
\* a write (the directory is gone, the disk is full).
Report ==
    /\ run.pc = "report"
    /\ IF Saves(run.i)
       THEN IF SaveFails(run.m)
            THEN LET raised == SaveRaised(Error("FailedPreconditionError",
                                   "Attempting to use uninitialized value",
                                   "train", run.m))
                 IN /\ err' = raised.err
                    /\ run' = raised.run
                    /\ ckpt' = ckpt
            ELSE \E written \in BOOLEAN :
                    IF written
                    THEN /\ ckpt' = [ckpt EXCEPT ![run.dir] = <<Checkpoint(run.m)>>]
                         /\ run' = NextIteration
                         /\ err' = err
                    ELSE LET raised == SaveRaised(Error("OpError",
                                           "checkpoint write failed", "train",
                                           run.m))
                         IN /\ err' = raised.err
                            /\ run' = raised.run
                            /\ ckpt' = ckpt
       ELSE /\ ckpt' = ckpt
            /\ run' = NextIteration
            /\ err' = err
    /\ UNCHANGED <<val, models, last, budget, loss>>

\* generate(): reads the generator, writes no variable.
Generate(m) ==
    /\ Idle
    /\ Constructed(m)
    /\ err' = IF \E v \in generator_network(m) : ~IsInitialized(val[v])
              THEN Error("FailedPreconditionError",
                         "Attempting to use uninitialized value", "generate", m)
              ELSE NoError
    /\ last' = Record("generate", m)
    /\ run' = NoRun
    /\ UNCHANGED <<val, models, ckpt, budget, loss>>

\* The process ends and main.py is started again: the session is gone, the
\* checkpoint directories stay, and the new process has built the same graph
\* by the same constructions (the model list of main.py is fixed).  A process
\* that died in a constructor dies there again and is not restarted.
ConstructorOps == {"Generator.__init__", "Discriminator.__init__", "Model.__init__"}
ConstructorError == err.op \in ConstructorOps

Restart ==
    /\ run.pc = "idle"
    /\ ~ConstructorError
    /\ budget.restarts > 0
    /\ \E n \in Names : ckpt[n] # <<>>
    /\ budget' = [budget EXCEPT !.restarts = @ - 1]
    /\ val' = [v \in GlobalVariables |-> Uninit]
    /\ run' = NoRun
    /\ err' = NoError
    /\ last' = Call("start", 0)
    /\ UNCHANGED <<models, ckpt, loss>>

Next ==
    \/ GraphOpen /\ \E name \in Names, reuse \in ReusePolicies,
          selectors \in SelectorPairs,
          max_resolution \in MaxResolutions,
          g_min_filters \in MinFilterChoices, d_min_filters \in MinFilterChoices,
          max_filters \in MaxFilterChoices :
            Construct(name, reuse, selectors[1], selectors[2],
                      max_resolution, g_min_filters, d_min_filters, max_filters)
    \/ \E m \in 1 .. Len(models) : Initialize(m)
    \/ \E m \in 1 .. Len(models) : Reinitialize(m)
    \/ \E m \in 1 .. Len(models), num_samples \in SampleCounts,
          batch_size \in BatchSizes : TrainBegin(m, num_samples, batch_size)
    \/ Fetch
    \/ Update
    \/ Report
    \/ \E m \in 1 .. Len(models) : Generate(m)
    \/ Restart

Spec == Init /\ [][Next]_vars

----------------------------------------------------------------------------
\* The earlier variant of the model, src/gan.py: one model per graph, its
\* variables under "generator" and "discriminator" with no model name in
\* front, and a train() that opens its own session, calls
\* initialize(model_dir) and runs the loop.

LegacyBatchSizes == 1 .. MaxBatch + 1

\* Model.__init__ of src/gan.py.
LegacyConstruct(max_resolution) ==
    /\ Idle
    /\ models = <<>>
    /\ LET num_layers == NumLayers(max_resolution)
           created == NetworkVariables(LegacyName, "generator", num_layers)
                        \cup NetworkVariables(LegacyName, "discriminator", num_layers)
                        \cup {GeneratorStepVar(LegacyName),
                              DiscriminatorStepVar(LegacyName),
                              SlotVar(LegacyName, "generator", 1),
                              SlotVar(LegacyName, "discriminator", 1)}
       IN /\ val' = [v \in created |-> Uninit]
          /\ models' = <<ModelObject(LegacyName, TRUE, num_layers, "complete")>>
    /\ err' = NoError
    /\ last' = Record("construct", 1)
    /\ run' = NoRun
    /\ UNCHANGED <<ckpt, budget, loss>>

\* initialize(model_dir): a Saver over every variable of the graph restores
\* the latest checkpoint of model_dir, or tf.global_variables_initializer()
\* runs.
LegacyInitialized(model_dir, draw) ==
    IF ckpt[model_dir] # <<>>
    THEN [v \in GlobalVariables |-> ckpt[model_dir][1].vals[v]]
    ELSE [v \in GlobalVariables |-> InitialValue(v, draw)]

\* train() up to its loop: a new session, initialize(model_dir), the data
\* source.
LegacyTrainBegin(model_dir, num_samples, batch_size) ==
    /\ Idle
    /\ Constructed(1)
    /\ budget.trains > 0
    /\ budget' = [budget EXCEPT !.trains = @ - 1]
    /\ \E draw \in Draws : val' = LegacyInitialized(model_dir, draw)
    /\ run' = [pc |-> "fetch", m |-> 1, dir |-> model_dir, i |-> 0,
               num_samples |-> num_samples, remaining |-> num_samples,
               batch_size |-> batch_size, fetched |-> 0, status |-> "RUNNING",
               g0 |-> val'[GeneratorStepVar(LegacyName)],
               d0 |-> val'[DiscriminatorStepVar(LegacyName)],
               feed_dict |-> <<>>, trace |-> <<>>]
    /\ err' = NoError
    /\ last' = Record("train", 1)
    /\ UNCHANGED <<models, ckpt, loss>>

\* session.run([next_reals, next_latents]): OutOfRangeError leaves the loop
\* through the except clause; any batch, short or full, goes on.
LegacyFetch ==
    /\ run.pc = "fetch"
    /\ LET fetched == NextBatch(run.remaining, run.batch_size)
       IN run' = IF fetched = 0
                 THEN Returned("EXHAUSTED")
                 ELSE [run EXCEPT !.pc = "generator", !.remaining = @ - fetched,
                                  !.fetched = fetched]
    /\ UNCHANGED <<val, models, ckpt, err, last, budget, loss>>

\* session.run(self.generator_train_op): the generator loss is computed from
\* the latents alone, batch_size rows of them whatever the batch of reals.
LegacyGeneratorUpdate ==
    /\ run.pc = "generator"
    /\ val' = Stepped(GeneratorUpdates(run.m))
    /\ run' = [run EXCEPT !.pc = "discriminator",
                          !.trace = RunPrefix(run.m) \o Minimize("generator")]
    /\ UNCHANGED <<models, ckpt, err, last, budget, loss>>

\* reals + (fakes - reals) * coefficients: fetched rows against batch_size
\* rows, which broadcast when they are equal or when fetched is 1.
Broadcasts(fetched, batch_size) == fetched = batch_size \/ fetched = 1

\* session.run(self.discriminator_train_op)
LegacyDiscriminatorUpdate ==
    /\ run.pc = "discriminator"
    /\ IF Broadcasts(run.fetched, run.batch_size)
       THEN /\ val' = Stepped(DiscriminatorUpdates(run.m))
            /\ run' = [run EXCEPT !.pc = "report",
                                  !.trace = @ \o RunPrefix(run.m)
                                              \o Minimize("discriminator")]
            /\ err' = err
       ELSE /\ val' = val
            /\ run' = Returned("FAILED")
            /\ err' = Error("InvalidArgumentError", "Incompatible shapes", "train",
                            run.m)
    /\ UNCHANGED <<models, ckpt, last, budget, loss>>

\* The i % 100 == 0 branch: the two losses, saver.save(), then
\* np.concatenate([reals, fakes], axis=2), which needs as many reals as
\* fakes; then the next value of i.
LegacyReport ==
    /\ run.pc = "report"
    /\ IF Reports(run.i)
       THEN /\ ckpt' = [ckpt EXCEPT ![run.dir] = <<Checkpoint(run.m)>>]
            /\ IF run.fetched = run.batch_size
               THEN /\ run' = NextIteration
                    /\ err' = err
               ELSE /\ run' = Returned("FAILED")
                    /\ err' = Error("ValueError", "all the input array dimensions must match",
                                    "train", run.m)
       ELSE /\ ckpt' = ckpt
            /\ run' = NextIteration
            /\ err' = err
    /\ UNCHANGED <<val, models, last, budget, loss>>

NextLegacy ==
    \/ \E max_resolution \in MaxResolutions : LegacyConstruct(max_resolution)
    \/ \E model_dir \in Names, num_samples \in SampleCounts,
          batch_size \in LegacyBatchSizes :
            LegacyTrainBegin(model_dir, num_samples, batch_size)
    \/ LegacyFetch
    \/ LegacyGeneratorUpdate
    \/ LegacyDiscriminatorUpdate
    \/ LegacyReport

SpecLegacy == Init /\ [][NextLegacy]_vars

----------------------------------------------------------------------------
\* A long train() call.  The periods of lines 327 and 350 are far beyond
\* what an exploration from the start of the process gets to, so this
\* specification starts inside the loop: one model, constructed, given its
\* initial values by initialize() with no checkpoint in its directory, its
\* train() call at the top of the loop with i0 iterations done.

\* Samples and batch size of the epoch trained from its first iteration.
MaxEpochSamples == 40
MaxEpochBatch == 4
\* Checkpoint periods the loop has got through when the exploration starts.
MaxPeriods == 2

LongName == "a"
LongModel ==
    ConstructOutcome(LongName, "None", NS_GAN, ONE_CENTERED, MinResolution,
                     32, 32, 32, 1, {})

\* The loop indices the exploration starts at: the first iteration, and the
\* last iteration before a report and before a checkpoint.
LongStarts ==
    {0, LogPeriod - 1} \cup {p * SavePeriod - 1 : p \in 1 .. MaxPeriods}

\* The values after initialize() and i iterations of line 322: what the two
\* train ops write has moved i times.
TrainedValues(i, draw) ==
    LET updated == GeneratorUpdates(1) \cup DiscriminatorUpdates(1)
    IN [v \in LongModel.created |->
          IF v \in updated THEN Value(InitialValue(v, draw)[1] + i)
          ELSE InitialValue(v, draw)]

\* The last iteration that saved, of a loop whose index has got to i >= 1.
LastSaved(i) == SavePeriod * ((i - 1) \div SavePeriod)

\* The checkpoint directory when the loop index has got to i: the
\* checkpoint of iteration LastSaved(i), written after its update.
SavedBy(i, draw) ==
    IF i = 0 THEN <<>>
    ELSE <<[tag |-> LastSaved(i) + 1, vals |-> TrainedValues(LastSaved(i) + 1, draw)]>>

InitLong ==
    \E i0 \in LongStarts, draw \in Draws :
      \E batch_size \in 1 .. (IF i0 = 0 THEN MaxEpochBatch ELSE MaxBatch),
         remaining \in 0 .. (IF i0 = 0 THEN MaxEpochSamples ELSE MaxSamples) :
        /\ models = <<LongModel.model>>
        /\ val = TrainedValues(i0, draw)
        /\ ckpt = [n \in Names |-> IF n = LongName THEN SavedBy(i0, draw) ELSE <<>>]
        /\ run = [pc |-> "fetch", m |-> 1, dir |-> LongName, i |-> i0,
                  num_samples |-> i0 * batch_size + remaining,
                  remaining |-> remaining, batch_size |-> batch_size,
                  fetched |-> IF i0 = 0 THEN 0 ELSE batch_size,
                  status |-> "RUNNING", g0 |-> Value(0), d0 |-> Value(0),
                  feed_dict |-> <<>>, trace |-> <<>>]
        /\ err = NoError
        /\ last = [op |-> "train", m |-> 1, streak |-> 1]
        /\ budget = [trains |-> MaxTrains - 1, restarts |-> MaxRestarts]
        /\ loss = NotEvaluated

NextLong ==
    \/ Fetch
    \/ Update
    \/ Report

SpecLong == InitLong /\ [][NextLong]_vars

\* The loop is sequential code: the step it is at is taken.
SpecLongFair == SpecLong /\ WF_vars(NextLong)

----------------------------------------------------------------------------
\* main.py run as "python main.py --train --generate": its two models of
\* one name, the second with reuse=tf.AUTO_REUSE, and its session block in
\* the order of lines 108-146.

\* --batch_size, default.
DefaultBatchSize == 64

\* What the data files hold when a train() call opens them: some full
\* batches and possibly a short one.
MainSampleCounts ==
    {b * DefaultBatchSize + r : b \in 0 .. MaxSamples, r \in {0, 1}}

InitMain ==
    /\ val = <<>>
    /\ models = <<>>
    /\ ckpt = [n \in Names |-> <<>>]
    /\ run = NoRun
    /\ err = NoError
    /\ last = Call("start", 0)
    /\ budget = [trains |-> ModelCount, restarts |-> 0]
    /\ loss = NotEvaluated

\* gan_models = [gan.Model(..., name=args.model_dir),
\*               gan.Model(..., name=args.model_dir, reuse=tf.AUTO_REUSE)]
MainConstruct ==
    \E max_resolution \in MaxResolutions, max_filters \in MaxFilterChoices :
      \E min_filters \in {f \in MinFilterChoices :
                            NetworkArgsValid(max_resolution, f, max_filters)} :
        Construct(LongName, IF Len(models) = 0 THEN "None" ELSE "AUTO_REUSE",
                  NS_GAN, ONE_CENTERED, max_resolution, min_filters, min_filters,
                  max_filters)

\* for gan_model in gan_models[:1]: gan_model.initialize()
MainInitialize ==
    /\ last = Call("construct", ModelCount)
    /\ Initialize(1)

\* for gan_model in gan_models[1:]: gan_model.reinitialize()
MainReinitialize ==
    /\ last.op = "generate" /\ last.m < ModelCount
    /\ Reinitialize(last.m + 1)

\* if args.train: gan_model.train(...)
MainTrain ==
    /\ last.op \in {"initialize", "reinitialize"}
    /\ \E num_samples \in MainSampleCounts :
          TrainBegin(last.m, num_samples, DefaultBatchSize)

\* if args.generate: gan_model.generate(...)
MainGenerate ==
    /\ last.op = "train"
    /\ Generate(last.m)

NextMain ==
    \/ MainConstruct
    \/ MainInitialize
    \/ MainTrain
    \/ Fetch
    \/ Update
    \/ Report
    \/ MainGenerate
    \/ MainReinitialize

SpecMain == InitMain /\ [][NextMain]_vars

----------------------------------------------------------------------------
\* The loss construction, lines 82-147 (src/gan.py 46-66), as a function of
\* what the discriminator returned for one batch: the logits of the reals
\* and of the fakes, and the gradient of the interpolated logits with
\* respect to the interpolated samples.
\*
\* Tensors are float32.  A finite value is an integer count of a fixed unit
\* (ten-thousandths for logits, losses and squares, hundredths for
\* gradients and slopes, ones for the coefficient), a result beyond the
\* largest finite magnitude is an infinity, and the arithmetic of
\* infinities and NaN is IEEE 754's.

\* Largest finite magnitude (float32's is about 3.4e38).
FloatMax == 1000000
\* Samples in a batch.
MaxLossBatch == 2

Fin(v) == [k |-> "fin", v |-> v]
Inf(sign) == [k |-> "inf", v |-> sign]
NaN == [k |-> "nan", v |-> 0]

IsFinite(a) == a.k = "fin"

Rounded(v) ==
    IF v > FloatMax THEN Inf(1)
    ELSE IF v < -FloatMax THEN Inf(-1)
    ELSE Fin(v)

Sign(v) == IF v > 0 THEN 1 ELSE IF v < 0 THEN -1 ELSE 0

FAdd(a, b) ==
    IF a.k = "nan" \/ b.k = "nan" THEN NaN
    ELSE IF a.k = "inf" /\ b.k = "inf" THEN (IF a.v = b.v THEN a ELSE NaN)
    ELSE IF a.k = "inf" THEN a
    ELSE IF b.k = "inf" THEN b
    ELSE Rounded(a.v + b.v)

FNeg(a) == IF a.k = "nan" THEN a ELSE [a EXCEPT !.v = -@]

FSub(a, b) == FAdd(a, FNeg(b))

\* inf * 0 is NaN.
FMul(a, b) ==
    IF a.k = "nan" \/ b.k = "nan" THEN NaN
    ELSE IF a.k = "inf" \/ b.k = "inf"
    THEN (IF a.v = 0 \/ b.v = 0 THEN NaN ELSE Inf(Sign(a.v) * Sign(b.v)))
    ELSE Rounded(a.v * b.v)

FDiv(a, n) == IF a.k = "fin" THEN Fin(a.v \div n) ELSE a

\* Integer part of the square root, between lo and hi.
RECURSIVE Root(_, _, _)
Root(n, lo, hi) ==
    IF lo >= hi THEN lo
    ELSE LET mid == (lo + hi + 1) \div 2
         IN IF mid * mid <= n THEN Root(n, mid, hi) ELSE Root(n, lo, mid - 1)

\* tf.sqrt: of ten-thousandths, in hundredths.
FSqrt(a) ==
    IF a.k = "nan" \/ a.v < 0 THEN NaN
    ELSE IF a.k = "inf" THEN a
    ELSE Fin(Root(a.v, 0, 1 + a.v \div 1000))

RECURSIVE FSum(_)
FSum(t) == IF t = <<>> THEN Fin(0) ELSE FAdd(Head(t), FSum(Tail(t)))

\* tf.reduce_sum, tf.reduce_mean, tf.square over a tensor given as the
\* sequence of its elements.
reduce_sum(t) == FSum(t)
reduce_mean(t) == FDiv(FSum(t), Len(t))
square(t) == [j \in DOMAIN t |-> FMul(t[j], t[j])]

\* log(1 + exp(-|x|)) in ten-thousandths, x a whole number.
SoftplusTail == <<6931, 3133, 1269, 486, 181, 67, 25, 9, 3, 1>>

\* tf.nn.sigmoid_cross_entropy_with_logits:
\* max(x, 0) - x * z + log(1 + exp(-|x|)), elementwise.
sigmoid_cross_entropy_with_logits(logits, labels) ==
    [j \in DOMAIN logits |->
        LET x == logits[j]
            magnitude == (IF x < 0 THEN -x ELSE x) \div 10000
            tail == IF magnitude < Len(SoftplusTail)
                    THEN SoftplusTail[magnitude + 1] ELSE 0
        IN Rounded((IF x > 0 THEN x ELSE 0) - x * labels[j] + tail)]

ones_like(t) == [j \in DOMAIN t |-> 1]
zeros_like(t) == [j \in DOMAIN t |-> 0]
Tensor(t) == [j \in DOMAIN t |-> Fin(t[j])]

\* Lines 82-109: the discriminator loss before the penalty is added.
BaseLoss(loss_function, real_logits, fake_logits) ==
    IF loss_function = NS_GAN
    THEN FAdd(reduce_mean(sigmoid_cross_entropy_with_logits(
                              real_logits, ones_like(real_logits))),
              reduce_mean(sigmoid_cross_entropy_with_logits(
                              fake_logits, zeros_like(fake_logits))))
    ELSE FAdd(FNeg(reduce_mean(Tensor(real_logits))),
              reduce_mean(Tensor(fake_logits)))

\* Line 134: one slope per sample, 0.0001 being one ten-thousandth.
slopes(gradients) ==
    [b \in DOMAIN gradients |->
        FSqrt(FAdd(reduce_sum(square(Tensor(gradients[b]))), Fin(1)))]

\* Lines 136-142, 1.0 being a hundred hundredths.
gradient_penalty(kind, gradients) ==
    LET centre == IF kind = ZERO_CENTERED THEN Fin(0) ELSE Fin(100)
        s == slopes(gradients)
    IN reduce_mean(square([b \in DOMAIN s |-> FSub(s[b], centre)]))

\* Line 147.
discriminator_loss(loss_function, kind, gradient_coefficient, real_logits, fake_logits, gradients) ==
    FAdd(BaseLoss(loss_function, real_logits, fake_logits),
         FMul(gradient_penalty(kind, gradients), Fin(gradient_coefficient)))

\* The inputs explored: logits of -1.0 and 2.0; per sample a gradient that
\* vanishes, one of norm 1, one of norm sqrt(2) and one whose square is
\* beyond the largest finite value; coefficients 0 and 1.0.
LogitValues == {-10000, 20000}
GradientSamples == {<<0, 0>>, <<100, 0>>, <<100, 100>>, <<2000, 0>>}
GradientCoefficients == {0, 1}
Batches(values) == UNION {[1 .. n -> values] : n \in 1 .. MaxLossBatch}

InitLoss ==
    /\ val = <<>>
    /\ models = <<>>
    /\ ckpt = [n \in Names |-> <<>>]
    /\ run = NoRun
    /\ err = NoError
    /\ last = Call("start", 0)
    /\ budget = [trains |-> MaxTrains, restarts |-> MaxRestarts]
    /\ \E loss_function \in {NS_GAN, WGAN}, kind \in {ZERO_CENTERED, ONE_CENTERED},
          gradient_coefficient \in GradientCoefficients,
          real_logits \in Batches(LogitValues) :
        \E fake_logits \in [DOMAIN real_logits -> LogitValues],
           gradients \in [DOMAIN real_logits -> GradientSamples] :
            loss = [pc |-> "built", loss_function |-> loss_function,
                    kind |-> kind, gradient_coefficient |-> gradient_coefficient,
                    real_logits |-> real_logits, fake_logits |-> fake_logits,
                    gradients |-> gradients]

\* session.run(self.discriminator_loss) on the batch.
EvaluateLoss ==
    /\ loss.pc = "built"
    /\ loss' = [pc |-> "evaluated", loss_function |-> loss.loss_function,
                kind |-> loss.kind,
                gradient_coefficient |-> loss.gradient_coefficient,
                base |-> BaseLoss(loss.loss_function, loss.real_logits,
                                  loss.fake_logits),
                gradient_penalty |-> gradient_penalty(loss.kind, loss.gradients),
                discriminator_loss |->
                    discriminator_loss(loss.loss_function, loss.kind,
                                       loss.gradient_coefficient, loss.real_logits,
                                       loss.fake_logits, loss.gradients)]
    /\ UNCHANGED <<val, models, ckpt, run, err, last, budget>>

NextLoss == EvaluateLoss

SpecLoss == InitLoss /\ [][NextLoss]_vars

----------------------------------------------------------------------------
\* Properties.

RunName == models[run.m].name

\* Iterations of the current train() call whose updates have been applied.
Completed == IF run.pc = "report" THEN run.i + 1 ELSE run.i

StepVars ==
    GlobalVariables \cap
        UNION {{GeneratorStepVar(n), DiscriminatorStepVar(n)} : n \in Namespaces}

\* C1: a train() call that started with both counters at 0 has, after k
\* iterations and while not EXHAUSTED, generator_step = discriminator_step
\* = k; and the update of an iteration adds exactly 1 to each of the two
\* counters of the model and leaves every other counter alone.
C1_CountersEqualIterations ==
    /\ [](run.status = "RUNNING" /\ run.g0 = Value(0) /\ run.d0 = Value(0)
            => /\ GeneratorStep(RunName) = Value(Completed)
               /\ DiscriminatorStep(RunName) = Value(Completed))
    /\ [][run.pc = "update" /\ run'.pc = "report"
            => /\ GeneratorStep(RunName)' = Value(GeneratorStep(RunName)[1] + 1)
               /\ DiscriminatorStep(RunName)' = Value(DiscriminatorStep(RunName)[1] + 1)
               /\ \A v \in StepVars : Attr[v].ns # RunName => val'[v] = val[v]]_vars

C1_Witness ==
    /\ run.status = "RUNNING" /\ run.pc = "fetch" /\ run.i = 2
    /\ run.g0 = Value(0) /\ run.d0 = Value(0)
    /\ GeneratorStep(RunName) = Value(2)
    /\ DiscriminatorStep(RunName) = Value(2)

\* C2: in train(), a fetch that yields fewer samples than batch_size (or
\* none: the data source is exhausted) ends the loop in EXHAUSTED without an
\* exception and without an update: no variable changes at the fetch, and
\* none changes and nothing is raised for a short batch afterwards.
C2_ShortBatchStopsWithoutUpdate ==
    /\ [][(run.pc = "fetch" /\ run' # run
              /\ NextBatch(run.remaining, run.batch_size) < run.batch_size)
            => /\ run'.pc = "idle" /\ run'.status = "EXHAUSTED"
               /\ err' = NoError
               /\ val' = val]_vars
    /\ [][(run.status = "RUNNING" /\ run.pc # "fetch"
              /\ run.fetched < run.batch_size)
            => val' = val /\ err' = NoError]_vars

AllInitialized(vs, f) == \A v \in vs : IsInitialized(f[v])

\* C3 as stated: initialize() either gives every variable of the namespace
\* its checkpoint value (a checkpoint exists) or its initial value with both
\* counters 0 (none exists), and leaves no variable of the namespace
\* uninitialized.
C3_Original ==
    [][\A m \in 1 .. Len(models) :
          (last'.op = "initialize" /\ last'.m = m /\ Initialize(m)) =>
            LET name == models[m].name
                space == GlobalVariablesIn(name)
            IN /\ IF LatestCheckpoint(name) # <<>>
                  THEN \A v \in space :
                          /\ v \in DOMAIN LatestCheckpoint(name)[1].vals
                          /\ val'[v] = LatestCheckpoint(name)[1].vals[v]
                  ELSE /\ \A v \in space : val'[v] \in {Value(d) : d \in Draws}
                       /\ GeneratorStep(name)' = Value(0)
                       /\ DiscriminatorStep(name)' = Value(0)
               /\ AllInitialized(space, val')]_vars

\* C3 (amended): initialize() makes one of three transitions.  With a
\* checkpoint that holds every variable of the model's saver (the variables
\* that were in the graph when the model was constructed, among them all the
\* model's own), exactly those variables take their checkpoint values.  With
\* a checkpoint that lacks one of them the call raises and changes nothing.
\* With no checkpoint every variable of the namespace takes its initial value
\* (the counters 0) and nothing else changes.  After a call that did not
\* raise, every variable of the model itself is initialized.
C3_InitializeRestoresOrInitializes ==
    [][\A m \in 1 .. Len(models) :
          (last'.op = "initialize" /\ last'.m = m /\ Initialize(m)) =>
            LET name == models[m].name
                latest == LatestCheckpoint(name)
                saved == saver_variables(m)
            IN IF latest # <<>> /\ saved \subseteq DOMAIN latest[1].vals
               THEN /\ \A v \in GlobalVariables :
                         val'[v] = IF v \in saved THEN latest[1].vals[v] ELSE val[v]
                    /\ err' = NoError
                    /\ AllInitialized(ModelVariables(m), val')
               ELSE IF latest # <<>>
               THEN val' = val /\ err'.kind = "NotFoundError"
               ELSE /\ \E d \in Draws : \A v \in GlobalVariables :
                         val'[v] = IF Attr[v].ns # name THEN val[v]
                                   ELSE IF Attr[v].trainable THEN Value(d) ELSE Value(0)
                    /\ err' = NoError
                    /\ AllInitialized(GlobalVariablesIn(name), val')]_vars

\* A restore by the first model that left a variable of its namespace (one a
\* later model added) uninitialized.
C3_Witness ==
    /\ last.op = "initialize" /\ err = NoError
    /\ LatestCheckpoint(models[last.m].name) # <<>>
    /\ AllInitialized(ModelVariables(last.m), val)
    /\ GeneratorStep(models[last.m].name)[1] > 0
    /\ \E v \in GlobalVariablesIn(models[last.m].name) : ~IsInitialized(val[v])

\* C4: reinitialize() gives its initial value to each variable of the
\* namespace that is uninitialized when it is called, changes no other
\* variable, and leaves every variable of the namespace initialized.
C4_ReinitializeOnlyUninitialized ==
    [][\A m \in 1 .. Len(models) :
          (last'.op = "reinitialize" /\ last'.m = m /\ Reinitialize(m)) =>
            LET name == models[m].name
            IN /\ \E d \in Draws : \A v \in GlobalVariables :
                     val'[v] = IF Attr[v].ns = name /\ ~IsInitialized(val[v])
                               THEN (IF Attr[v].trainable THEN Value(d) ELSE Value(0))
                               ELSE val[v]
               /\ AllInitialized(GlobalVariablesIn(name), val')]_vars

\* After reinitialize() by a second model: a weight trained by the first
\* model kept its value, and a weight only the second model has was
\* initialized.
C4_Witness ==
    /\ last.op = "reinitialize" /\ last.m = 2
    /\ Constructed(1) /\ Constructed(2)
    /\ \E v \in generator_network(1) \cap generator_network(2) :
          IsInitialized(val[v]) /\ val[v][1] >= 2
    /\ \E v \in generator_network(2) \ generator_network(1) :
          val[v] \in {Value(d) : d \in Draws}
    /\ GeneratorStep(models[2].name)[1] > 0

\* C5: a second reinitialize() right after a first one on the same model
\* changes no variable.
C5_ReinitializeTwiceIdempotent ==
    [][\A m \in 1 .. Len(models) :
          (last.op = "reinitialize" /\ last.m = m /\ last'.streak = 2
                /\ Reinitialize(m))
              => val' = val]_vars

C5_Witness ==
    /\ last.op = "reinitialize" /\ last.streak = 2
    /\ \E v \in GlobalVariablesIn(models[last.m].name) : Attr[v].trainable

CountersNotDecreasing ==
    \A v \in StepVars :
        (IsInitialized(val[v]) /\ IsInitialized(val'[v])) => val'[v][1] >= val[v][1]

\* C7 as stated: no call of initialize(), reinitialize(), train() or
\* generate() lowers a counter.
C7_Original == [][CountersNotDecreasing]_vars

\* C7 (amended): no step of reinitialize(), train() or generate() lowers a
\* counter; initialize() is the one call that can, by restoring the latest
\* checkpoint or by running the counters' initializers.
C7_CountersMonotoneExceptInitialize ==
    [][last'.op # "initialize" => CountersNotDecreasing]_vars

\* A counter that train() advanced and a later reinitialize() kept.
C7_Witness ==
    /\ last.op = "reinitialize"
    /\ GeneratorStep(models[last.m].name)[1] >= 2
    /\ DiscriminatorStep(models[last.m].name)[1] >= 2

\* C8: when the constructor raises for an unrecognized loss_function, the
\* construction has added nothing to the graph.
C8_NoGraphWorkBeforeLossError ==
    err.msg = "Invalid loss function" =>
        /\ \A o \in GraphOps : o.owner # err.m
        /\ GlobalVariablesIn(models[err.m].name) = {}

\* C9: a configuration error (ValueError) is only ever raised by a
\* constructor, and a construction whose loss_function or gradient_penalty
\* selector is unrecognized, or whose generator or discriminator has
\* max_resolution // min_resolution # max_filters // min_filters, raises one
\* and yields no model.
C9_ConfigurationErrorsAtConstruction ==
    /\ [](err.kind = "ValueError" => err.op \in ConstructorOps)
    /\ [](\A m \in 1 .. Len(models) :
            ~models[m].constructed => (err.kind = "ValueError" /\ err.m = m))
    /\ [][(last'.op = "construct" /\ Len(models') = Len(models) + 1) =>
            \A name \in Names, reuse \in ReusePolicies, selectors \in SelectorPairs,
               max_resolution \in MaxResolutions,
               g_min_filters \in MinFilterChoices, d_min_filters \in MinFilterChoices,
               max_filters \in MaxFilterChoices :
                (/\ Construct(name, reuse, selectors[1], selectors[2], max_resolution,
                              g_min_filters, d_min_filters, max_filters)
                 /\ \/ selectors[1] \notin {NS_GAN, WGAN}
                    \/ selectors[2] \notin {ZERO_CENTERED, ONE_CENTERED}
                    \/ max_resolution \div MinResolution # max_filters \div g_min_filters
                    \/ max_resolution \div MinResolution # max_filters \div d_min_filters)
                => /\ err'.kind = "ValueError"
                   /\ err'.op \in ConstructorOps
                   /\ ~models'[Len(models')].constructed]_vars

\* A constructed model that has been trained without any error, and (in
\* another behaviour) a construction that raised.
C9_Witness ==
    /\ Len(models) >= 1 /\ Constructed(1)
    /\ run.status = "EXHAUSTED" /\ run.i >= 1 /\ err = NoError

\* C10 as stated: the two variable lists of a model are disjoint and their
\* union is the set of all trainable variables.
C10_Original ==
    \A m \in 1 .. Len(models) :
        Constructed(m) =>
            /\ generator_variables(m) \cap discriminator_variables(m) = {}
            /\ generator_variables(m) \cup discriminator_variables(m)
                 = {v \in GraphAt(m) : Attr[v].trainable}

\* C10 (amended): the two variable lists of a model are disjoint, the first
\* holds the trainable variables under <name>/generator and the second those
\* under <name>/discriminator, and their union is the set of the trainable
\* variables under the model's name that are in the graph when the model is
\* constructed: all of the model's own, those of an earlier model of the
\* same name, none of a model of another name.
C10_PartitionOfNamespace ==
    \A m \in 1 .. Len(models) :
        Constructed(m) =>
            /\ generator_variables(m) \cap discriminator_variables(m) = {}
            /\ \A v \in generator_variables(m) :
                  Attr[v].ns = models[m].name /\ Attr[v].scope = "generator"
            /\ \A v \in discriminator_variables(m) :
                  Attr[v].ns = models[m].name /\ Attr[v].scope = "discriminator"
            /\ generator_variables(m) \cup discriminator_variables(m)
                 = {v \in GraphAt(m) : Attr[v].trainable /\ Attr[v].ns = models[m].name}
            /\ generator_network(m) \subseteq generator_variables(m)
            /\ discriminator_network(m) \subseteq discriminator_variables(m)
            /\ \A j \in 1 .. m :
                  models[j].name = models[m].name
                      => generator_network(j) \subseteq generator_variables(m)

\* Two models of different names, and (in another behaviour) two of the same
\* name and different depths.
C10_Witness ==
    /\ Len(models) = 2 /\ Constructed(1) /\ Constructed(2)
    /\ models[1].name # models[2].name
    /\ generator_variables(2) # {}

\* The positions of a trace at which a group of operations of a name ran.
Positions(trace, name) == {p \in 1 .. Len(trace) : trace[p].name = name}

ApplyNames == {"generator_apply", "discriminator_apply"}

\* Every optimizer step of the trace comes after a run of all of ops.
StatisticsFirst(trace, ops) ==
    \A p \in 1 .. Len(trace) :
        trace[p].name \in ApplyNames =>
            \E q \in 1 .. p - 1 :
                trace[q].name = "update_ops" /\ ops \subseteq trace[q].ops

\* C11 as stated: in every iteration, every statistics update registered
\* in the graph (by any model constructed in the process) is applied before
\* each of the two optimizer steps.
C11_Original ==
    /\ run.pc = "report" => \A name \in ApplyNames : Positions(run.trace, name) # {}
    /\ StatisticsFirst(run.trace,
                       UNION {UpdateOpsOf(j) : j \in {k \in 1 .. Len(models) :
                                                        models[k].constructed}})

\* C11 (amended): in every iteration of a model's train(), every statistics
\* update that was registered in the graph when the model was constructed
\* (those of its own generator and of the generators of the models
\* constructed before it) is applied before the generator's optimizer step
\* and before the discriminator's; an iteration that completes has run both
\* steps.
C11_StatisticsBeforeOptimizerStep ==
    /\ run.pc = "report" => \A name \in ApplyNames : Positions(run.trace, name) # {}
    /\ run.m > 0 =>
          /\ StatisticsFirst(run.trace, UNION {UpdateOpsOf(j) : j \in 1 .. run.m})
          /\ run.trace # <<>> => UpdateOpsOf(run.m) # {}

\* An iteration of the second model: the statistics updates of both
\* generators ran before both optimizer steps.
C11_Witness ==
    /\ run.pc = "report" /\ run.m = 2
    /\ \E q \in Positions(run.trace, "update_ops") :
          /\ \E o \in run.trace[q].ops : o.owner = 1
          /\ \E o \in run.trace[q].ops : o.owner = 2
          /\ \A name \in ApplyNames : \E p \in Positions(run.trace, name) : q < p

\* C12: within an iteration the discriminator's variables are written once,
\* after the gradients of both losses have been computed, and no operation
\* reads the variables of a network after an optimizer step of the same
\* iteration has written them.
C12_ParametersReadBeforeUpdated ==
    /\ Cardinality(Positions(run.trace, "discriminator_apply")) <= 1
    /\ \A p \in Positions(run.trace, "discriminator_apply") :
          \A name \in {"generator_gradients", "discriminator_gradients"} :
              \E q \in Positions(run.trace, name) : q < p
    /\ \A p, q \in 1 .. Len(run.trace) :
          p < q => Writes(run.trace[p].name) \cap Reads(run.trace[q].name) = {}

\* C13: the step at which train() raises changes no variable, and no
\* optimizer step of the iteration it raises in has been applied before it.
C13_ErrorAbortsIteration ==
    [][(run.status = "RUNNING" /\ err = NoError /\ err' # NoError)
          => /\ val' = val
             /\ \A p \in 1 .. Len(run.trace) : Writes(run.trace[p].name) = {}]_vars

SaveAttempts == Cardinality(Positions(run.trace, "save"))

\* C15: a checkpoint write that fails is attempted at most twice (one
\* retry).  An iteration that is to save either writes the checkpoint and
\* goes on, or ends train() with the exception, the store unchanged; and
\* once train() has failed no further step of the loop is taken.
C15_FailedSaveIsFatal ==
    /\ [](SaveAttempts <= 2)
    /\ [][(run.pc = "report" /\ run.i % SavePeriod = 0)
            => \/ /\ ckpt'[run.dir] # <<>>
                  /\ ckpt'[run.dir][1].tag = GeneratorStep(models[run.m].name)[1]
                  /\ run'.pc = "fetch" /\ err' = NoError
               \/ /\ ckpt' = ckpt
                  /\ SaveAttempts' \in {1, 2}
                  /\ err' # NoError /\ err'.op = "train"
                  /\ run'.pc = "idle" /\ run'.status = "FAILED"]_vars
    /\ [][run.status = "FAILED" => run'.pc = "idle" /\ run'.status # "RUNNING"]_vars

C15_Witness ==
    /\ run.status = "FAILED" /\ SaveAttempts = 1
    /\ err.kind = "OpError"
    /\ GeneratorStep(models[run.m].name)[1] >= 1

\* C16: the feed of every update run holds every tensor of the graph named
\* latents or training, whichever model owns it, the first with this
\* iteration's latents and the second with True; and no update run fails
\* for a placeholder without a value.
C16_EveryMatchingPlaceholderFed ==
    /\ [](run.pc = "update" =>
            \A o \in GraphOps :
                /\ o.name = "latents" =>
                      /\ o \in DOMAIN run.feed_dict
                      /\ run.feed_dict[o] = <<[batch |-> "latents", i |-> run.i,
                                               rows |-> run.batch_size]>>
                /\ o.name = "training" =>
                      /\ o \in DOMAIN run.feed_dict
                      /\ run.feed_dict[o] = <<TRUE>>)
    /\ [][run.pc = "update" => err'.kind # "InvalidArgumentError"]_vars

\* An update run of the second model done, its feed having held the
\* placeholders of the first.
C16_Witness ==
    /\ run.pc = "report" /\ run.m = 2 /\ err = NoError
    /\ models[1].name = models[2].name
    /\ Op(1, "latents") \in RequiredPlaceholders(2)

\* C14: the checkpoint store changes only in the report of an iteration
\* whose index is a multiple of the checkpoint period, after both optimizer
\* steps of that iteration; what is written is the variables as they are
\* then, under the value of the generator's counter; and every such
\* iteration that goes on has written its checkpoint.
C14_CheckpointAtPeriod ==
    /\ [][ckpt' # ckpt =>
            /\ run.pc = "report" /\ run.i % SavePeriod = 0
            /\ \A name \in ApplyNames : Positions(run.trace, name) # {}
            /\ GeneratorStep(RunName)[1] = run.g0[1] + run.i + 1
            /\ val' = val
            /\ \A n \in Names \ {run.dir} : ckpt'[n] = ckpt[n]
            /\ Len(ckpt'[run.dir]) = 1
            /\ ckpt'[run.dir][1].tag = GeneratorStep(RunName)[1]
            /\ \A v \in DOMAIN ckpt'[run.dir][1].vals :
                  ckpt'[run.dir][1].vals[v] = val[v]]_vars
    /\ [][(run.pc = "report" /\ run.i % SavePeriod = 0 /\ err' = NoError)
            => /\ ckpt'[run.dir] # <<>>
               /\ ckpt'[run.dir][1].tag = GeneratorStep(RunName)[1]]_vars

\* The checkpoint of iteration 100000 has been written.
C14_Witness ==
    /\ run.status = "RUNNING" /\ run.i = SavePeriod + 1
    /\ ckpt[run.dir] # <<>>
    /\ ckpt[run.dir][1].tag = SavePeriod + 1

\* The directory holds the state after iteration index j of a train() call
\* now at k iterations: the checkpoint's values are the initial ones moved
\* j + 1 times, the session's are those moved k times.
HoldsStateAfter(j, k) ==
    /\ ckpt[run.dir] # <<>>
    /\ \E draw \in Draws :
          /\ val = TrainedValues(k, draw)
          /\ ckpt[run.dir][1].vals = TrainedValues(j + 1, draw)
          /\ ckpt[run.dir][1].tag = j + 1

\* C20 as stated: the step that leaves the loop writes nothing, and for
\* every number k of completed iterations the directory then holds the
\* state after iteration 100000 * floor((k - 1) / 100000).
C20_Original ==
    [][(run.pc = "fetch" /\ run'.pc = "idle")
         => /\ ckpt' = ckpt
            /\ HoldsStateAfter(SavePeriod * ((run.i - 1) \div SavePeriod), run.i)]_vars

\* C20 (amended): checkpoints are written only at iterations whose index
\* is a multiple of 100 and of 100000; the step that leaves the loop writes
\* nothing; when train() returns after k >= 1 iterations the directory
\* holds the state after iteration 100000 * floor((k - 1) / 100000), and
\* when it returns after none the call has written no checkpoint.
C20_NoCheckpointAtLoopEnd ==
    /\ [][ckpt' # ckpt =>
            run.pc = "report" /\ run.i % LogPeriod = 0 /\ run.i % SavePeriod = 0]_vars
    /\ [][(run.pc = "fetch" /\ run'.pc = "idle")
            => /\ ckpt' = ckpt
               /\ run.i >= 1 => HoldsStateAfter(LastSaved(run.i), run.i)
               /\ run.i = 0 => ckpt[run.dir] = <<>>]_vars

\* train() has returned after 200000 iterations: the directory holds the
\* checkpoint of iteration 100000, the session is 99999 updates ahead of it.
C20_Witness ==
    /\ run.status = "EXHAUSTED" /\ run.i = 2 * SavePeriod
    /\ ckpt[run.dir] # <<>>
    /\ ckpt[run.dir][1].tag = SavePeriod + 1
    /\ GeneratorStep(LongName) = Value(2 * SavePeriod)

\* C17: a train() call on a freshly initialized model over N samples with
\* batch size B leaves the loop at the fetch after floor(N/B) full batches,
\* EXHAUSTED and with both counters at floor(N/B); it ends otherwise only
\* with an exception; and it always ends.
C17_EpochEndsAfterFullBatches ==
    /\ [][(run.pc = "fetch" /\ run'.pc = "idle"
              /\ run.g0 = Value(0) /\ run.d0 = Value(0))
            => LET k == run.num_samples \div run.batch_size
               IN /\ run'.status = "EXHAUSTED" /\ err' = NoError
                  /\ run.i = k /\ run'.i = k
                  /\ run.remaining = run.num_samples - k * run.batch_size
                  /\ val'[GeneratorStepVar(RunName)] = Value(k)
                  /\ val'[DiscriminatorStepVar(RunName)] = Value(k)]_vars
    /\ [][(run.status = "RUNNING" /\ run'.status # "RUNNING")
            => run'.status = "EXHAUSTED" \/ err' # NoError]_vars
    /\ (run.status = "RUNNING") ~> (run.status # "RUNNING")

\* N = 40, B = 4: ten iterations done, the eleventh fetch is next.
C17_Witness ==
    /\ run.pc = "fetch" /\ run.num_samples = 40 /\ run.batch_size = 4
    /\ run.i = 10 /\ run.remaining = 0
    /\ GeneratorStep(LongName) = Value(10)
    /\ DiscriminatorStep(LongName) = Value(10)

\* C19: the second model of main.py has the first model's name, so its
\* counters are the first model's variables.  reinitialize() of the second
\* model leaves them at the values the first model's train() ended with,
\* the second train() starts from these values, and after k iterations of
\* it each counter is that value plus k.
C19_SecondModelContinuesCounters ==
    /\ [](Len(models) = ModelCount =>
            /\ GeneratorStepVar(models[2].name) = GeneratorStepVar(models[1].name)
            /\ DiscriminatorStepVar(models[2].name)
                  = DiscriminatorStepVar(models[1].name))
    /\ []((last = Call("train", 1) /\ run.status = "EXHAUSTED")
            => /\ GeneratorStep(LongName) = Value(run.i)
               /\ DiscriminatorStep(LongName) = Value(run.i))
    /\ [][(last.m = 1 /\ last.op \in {"train", "generate"} /\ run.pc = "idle"
              /\ err' = NoError)
            => /\ val'[GeneratorStepVar(LongName)] = GeneratorStep(LongName)
               /\ val'[DiscriminatorStepVar(LongName)] = DiscriminatorStep(LongName)]_vars
    /\ [][(last.op = "reinitialize" /\ last'.op = "train")
            => /\ IsInitialized(GeneratorStep(LongName))
               /\ run'.g0 = GeneratorStep(LongName)
               /\ run'.d0 = DiscriminatorStep(LongName)]_vars
    /\ []((last = Call("train", 2) /\ run.status = "RUNNING")
            => /\ GeneratorStep(LongName) = Value(run.g0[1] + Completed)
               /\ DiscriminatorStep(LongName) = Value(run.d0[1] + Completed))

\* The second model's train() two iterations on, the first model's having
\* done at least one.
C19_Witness ==
    /\ last = Call("train", 2) /\ run.pc = "fetch" /\ run.i = 2
    /\ models[1].name = models[2].name
    /\ run.g0[1] >= 1
    /\ GeneratorStep(LongName) = Value(run.g0[1] + 2)
    /\ DiscriminatorStep(LongName) = Value(run.d0[1] + 2)

\* C18: with gradient_coefficient = 0 the discriminator loss evaluates to
\* the base loss of the selected objective, for both penalty kinds.
C18_ZeroCoefficientLossIsBase ==
    (loss.pc = "evaluated" /\ loss.gradient_coefficient = 0)
        => loss.discriminator_loss = loss.base

\* The same where the penalty is a finite number.
ZeroCoefficientFinitePenalty ==
    (loss.pc = "evaluated" /\ loss.gradient_coefficient = 0
        /\ IsFinite(loss.gradient_penalty))
        => loss.discriminator_loss = loss.base /\ IsFinite(loss.base)

\* The state at the top of the loop is the one the long exploration starts
\* from: the initial values moved i times, the checkpoint of the last
\* iteration that saved.
LoopState ==
    (run.pc = "fetch" /\ run.g0 = Value(0) /\ Len(models) = 1)
        => \E draw \in Draws :
              /\ val = TrainedValues(run.i, draw)
              /\ ckpt[run.dir] = SavedBy(run.i, draw)
              /\ run.num_samples = run.i * run.batch_size + run.remaining

\* A state the exploration from the start of the process gets to and the
\* long exploration would start from, were 1 among its starts: the top of
\* the loop after the first iteration.
LongStartReached ==
    \E draw \in Draws, batch_size \in BatchSizes, remaining \in 0 .. 1 :
        /\ models = <<LongModel.model>>
        /\ val = TrainedValues(1, draw)
        /\ ckpt = [n \in Names |-> IF n = LongName THEN SavedBy(1, draw) ELSE <<>>]
        /\ run = [pc |-> "fetch", m |-> 1, dir |-> LongName, i |-> 1,
                  num_samples |-> batch_size + remaining,
                  remaining |-> remaining, batch_size |-> batch_size,
                  fetched |-> batch_size,
                  status |-> "RUNNING", g0 |-> Value(0), d0 |-> Value(0),
                  feed_dict |-> <<>>, trace |-> <<>>]
        /\ err = NoError
        /\ last = [op |-> "train", m |-> 1, streak |-> 1]
        /\ budget = [trains |-> MaxTrains - 1, restarts |-> MaxRestarts]

====
